---- MODULE Spec2Model ----
(***************************************************************************)
(* Model of watts-happening (src/src/main.rs): the incremental sync of     *)
(* VirtualRide activities from the remote listing into data/index.json and *)
(* data/activities/{id}.json.  One run of main is a sequence of steps      *)
(* separated by its external calls (token exchange, list page, streams,    *)
(* index save); the storage persists from one run to the next.             *)
(***************************************************************************)
EXTENDS Integers, Sequences, FiniteSets, TLC

\* ------------------------------------------------------------------ bounds
MaxId == 3          \* activity ids are 1..MaxId
MaxPageLen == 2     \* the remote returns at most this many activities per page
MaxRepeat == 2      \* the remote lists one id at most this often within a run
MaxRuns == 2        \* runs of the program against the same storage
MaxIndexLen == 3    \* length of the arbitrary index contents add_activity is tried on

\* the page limit of the pagination loop
MaxPages == 5

\* ------------------------------------------------------------------ data
Ids == 1..MaxId

\* start_date strings, as sequences of character codes
DateOf(id) ==
    CASE id % 3 = 1 -> <<2, 0>>
      [] id % 3 = 2 -> <<2, 1>>
      [] OTHER      -> <<2>>

SportOf(id) == IF id % 3 = 2 THEN "Ride" ELSE "VirtualRide"

TypeOf(id) == IF id % 3 = 0 THEN "VirtualRide" ELSE "Ride"

\* struct Activity, reduced to the fields main reads
Activity(id) ==
    [id |-> id, activity_type |-> TypeOf(id), sport_type |-> SportOf(id),
     start_date |-> DateOf(id)]

Activities == {Activity(id) : id \in Ids}

\* the pages the remote may return
Pages == UNION {[1..n -> Activities] : n \in 0..MaxPageLen}

\* String::cmp: byte-wise lexicographic order, a proper prefix is smaller
StrLess(a, b) ==
    \E k \in 1..(Len(a) + 1) :
        /\ k <= Len(b)
        /\ \A j \in 1..(k - 1) : a[j] = b[j]
        /\ (k = Len(a) + 1 \/ a[k] < b[k])

\* struct ActivitySummary, the projection add_activity stores
ActivitySummary(activity) ==
    [id |-> activity.id, start_date |-> activity.start_date]

\* insertion of one summary into a sequence sorted by the comparator
\* |a, b| b.start_date.cmp(&a.start_date), behind every element that does not
\* compare greater (the sort is stable)
RECURSIVE InsertSorted(_, _)
InsertSorted(s, x) ==
    IF s = <<>> THEN <<x>>
    ELSE IF StrLess(Head(s).start_date, x.start_date)
         THEN <<x>> \o s
         ELSE <<Head(s)>> \o InsertSorted(Tail(s), x)

\* Vec::sort_by with that comparator: a stable sort, newest first
RECURSIVE SortByStartDateDesc(_)
SortByStartDateDesc(s) ==
    IF s = <<>> THEN <<>>
    ELSE InsertSorted(SortByStartDateDesc(SubSeq(s, 1, Len(s) - 1)), s[Len(s)])

\* add_activity without its sort
add_activity_NoSort(idx, activity) ==
    [idx EXCEPT !.activities = <<ActivitySummary(activity)>> \o idx.activities]

\* ActivityIndex::add_activity: insert at the front, then sort the whole vector
add_activity(idx, activity) ==
    [idx EXCEPT !.activities =
        SortByStartDateDesc(<<ActivitySummary(activity)>> \o idx.activities)]

\* get_known_ids that forgets the loaded index
get_known_ids_Empty(idx) == {}

\* ActivityIndex::get_known_ids
get_known_ids(idx) == {idx.activities[k].id : k \in 1..Len(idx.activities)}

EmptyIndex == [last_updated |-> <<>>, activities |-> <<>>]

\* the load that starts every run from the empty index
load_AlwaysEmpty(file) == EmptyIndex

\* ActivityIndex::load: the persisted index, or the empty one when the file is
\* missing or does not parse
load(file) ==
    IF file.kind = "json"
    THEN [last_updated |-> file.last_updated, activities |-> file.activities]
    ELSE EmptyIndex

\* what ActivityIndex::save leaves in data/index.json when it succeeds
IndexJson(idx) ==
    [kind |-> "json", last_updated |-> idx.last_updated, activities |-> idx.activities]

NoFile == [kind |-> "none", activity |-> Activity(1), streams |-> "absent"]
PartialFile == [kind |-> "partial", activity |-> Activity(1), streams |-> "absent"]

\* what save_activity_file leaves in data/activities/{id}.json when it succeeds
ActivityJson(aws) ==
    [kind |-> "json", activity |-> aws.activity, streams |-> aws.streams]

\* activity_file_exists that never finds the file
activity_file_exists_Never(fs, id) == FALSE

\* activity_file_exists
activity_file_exists(fs, id) == fs[id].kind # "none"

\* the scan filtering on the legacy type field instead of sport_type
RECURSIVE ScanPage_ByType(_, _, _)
ScanPage_ByType(activities, known, acc) ==
    IF activities = <<>> THEN [new |-> acc, found |-> FALSE]
    ELSE IF Head(activities).id \in known THEN [new |-> acc, found |-> TRUE]
    ELSE IF Head(activities).activity_type = "VirtualRide"
         THEN ScanPage_ByType(Tail(activities), known, Append(acc, Head(activities)))
         ELSE ScanPage_ByType(Tail(activities), known, acc)

\* the scan that notes a known id but goes on to the end of the page
RECURSIVE ScanPage_NoBreak(_, _, _)
ScanPage_NoBreak(activities, known, acc) ==
    IF activities = <<>> THEN [new |-> acc, found |-> FALSE]
    ELSE IF Head(activities).id \in known
         THEN [new |-> ScanPage_NoBreak(Tail(activities), known, acc).new, found |-> TRUE]
    ELSE IF Head(activities).sport_type = "VirtualRide"
         THEN ScanPage_NoBreak(Tail(activities), known, Append(acc, Head(activities)))
         ELSE ScanPage_NoBreak(Tail(activities), known, acc)

\* the scan that keeps every activity, whatever its sport_type
RECURSIVE ScanPage_NoFilter(_, _, _)
ScanPage_NoFilter(activities, known, acc) ==
    IF activities = <<>> THEN [new |-> acc, found |-> FALSE]
    ELSE IF Head(activities).id \in known THEN [new |-> acc, found |-> TRUE]
    ELSE ScanPage_NoFilter(Tail(activities), known, Append(acc, Head(activities)))

\* the for loop over one page: stop at the first known id, keep the VirtualRides
RECURSIVE ScanPage(_, _, _)
ScanPage(activities, known, acc) ==
    IF activities = <<>> THEN [new |-> acc, found |-> FALSE]
    ELSE IF Head(activities).id \in known THEN [new |-> acc, found |-> TRUE]
    ELSE IF Head(activities).sport_type = "VirtualRide"
         THEN ScanPage(Tail(activities), known, Append(acc, Head(activities)))
         ELSE ScanPage(Tail(activities), known, acc)

\* ------------------------------------------------------------------ state
VARIABLES
    indexFile,              \* data/index.json
    files,                  \* data/activities/{id}.json, by id
    pc,                     \* where main stands
    err,                    \* the error main returned, "" when none
    run,                    \* number of runs started; also the clock of Utc::now()
    index,                  \* let mut index
    known_ids,              \* let known_ids
    page,                   \* let mut page
    new_zwift_activities,   \* let mut new_zwift_activities
    found_existing,         \* let mut found_existing
    i,                      \* position of the enrichment loop, from 1
    lastPage,               \* the page the last list request returned
    listed,                 \* how often the pages of this run named each id
    seen,                   \* the VirtualRide activities on the pages of this run
    listReqs,               \* number of list requests of this run
    streamReqs,             \* ids whose streams were requested in this run
    lastStreams,            \* outcome of the streams request of the last step
    frozen,                 \* the remote listing stays as it is until the next run
    served,                 \* the pages returned in this run, kept while frozen
    replay,                 \* this run sees the listing the previous run saw
    prev,                   \* storage and listing as the previous run left them
    env,                    \* the three environment variables are all set
    events,                 \* the external calls of this run, in order
    before,                 \* the activities add_activity was last called on
    response,               \* the HTTP response fetch_activity_streams received
    result                  \* what fetch_activity_streams returned for it

vars == <<indexFile, files, pc, err, run, index, known_ids, page,
          new_zwift_activities, found_existing, i, lastPage, listed, seen,
          listReqs, streamReqs, lastStreams, frozen, served, replay, prev, env,
          events, before, response, result>>

disk == <<indexFile, files>>
locals == <<index, known_ids, page, new_zwift_activities, found_existing, i>>
listing == <<lastPage, listed, seen, listReqs, frozen, served, replay, prev>>
harness == <<before, response, result>>

\* no response received, nothing returned
NoResponse == [status |-> "none"]
NoResult == [kind |-> "none"]

NoPrev == [outcome |-> "none", indexFile |-> [kind |-> "missing"],
           files |-> [id \in Ids |-> NoFile], served |-> <<>>,
           err |-> "", streamReqs |-> <<>>]

\* how often a page names id
Occurrences(id, acts) == Cardinality({k \in 1..Len(acts) : acts[k].id = id})

\* the pages the remote may answer the next list request with
NextPages ==
    IF replay /\ listReqs < Len(prev.served)
    THEN {prev.served[listReqs + 1]}
    ELSE {p \in Pages : \A id \in Ids : listed[id] + Occurrences(id, p) <= MaxRepeat}

Init ==
    /\ indexFile = [kind |-> "missing"]
    /\ files = [id \in Ids |-> NoFile]
    /\ pc = "idle"
    /\ err = ""
    /\ run = 0
    /\ index = EmptyIndex
    /\ known_ids = {}
    /\ page = 1
    /\ new_zwift_activities = <<>>
    /\ found_existing = FALSE
    /\ i = 1
    /\ lastPage = <<>>
    /\ listed = [id \in Ids |-> 0]
    /\ seen = {}
    /\ listReqs = 0
    /\ streamReqs = <<>>
    /\ lastStreams = "none"
    /\ frozen = FALSE
    /\ served = <<>>
    /\ replay = FALSE
    /\ prev = NoPrev
    /\ env = TRUE
    /\ events = <<>>
    /\ before = <<>>
    /\ response = NoResponse
    /\ result = NoResult

\* the start that goes on to the credential exchange without its credentials
StartRun_NoEnvCheck(credentials, freeze) ==
    /\ pc \in {"idle", "done", "failed"}
    /\ run < MaxRuns
    /\ freeze => run + 1 < MaxRuns
    /\ run' = run + 1
    /\ frozen' = freeze
    /\ replay' = frozen
    /\ prev' = IF frozen
               THEN [outcome |-> pc, indexFile |-> indexFile, files |-> files,
                     served |-> served, err |-> err, streamReqs |-> streamReqs]
               ELSE NoPrev
    /\ index' = load(indexFile)
    /\ known_ids' = get_known_ids(load(indexFile))
    /\ page' = 1
    /\ new_zwift_activities' = <<>>
    /\ found_existing' = FALSE
    /\ i' = 1
    /\ lastPage' = <<>>
    /\ listed' = [id \in Ids |-> 0]
    /\ seen' = {}
    /\ served' = <<>>
    /\ listReqs' = 0
    /\ streamReqs' = <<>>
    /\ lastStreams' = "none"
    /\ pc' = "refresh"
    /\ err' = ""
    /\ env' = credentials
    /\ events' = <<>>
    /\ UNCHANGED <<disk, harness>>

\* main, lines 134-146: load the index, take the known ids, read the three
\* environment variables (credentials: all three are set).  freeze: the remote
\* listing will not change before the run after this one.
StartRun(credentials, freeze) ==
    /\ pc \in {"idle", "done", "failed"}
    /\ run < MaxRuns
    /\ freeze => run + 1 < MaxRuns
    /\ run' = run + 1
    /\ frozen' = freeze
    /\ replay' = frozen
    /\ prev' = IF frozen
               THEN [outcome |-> pc, indexFile |-> indexFile, files |-> files,
                     served |-> served, err |-> err, streamReqs |-> streamReqs]
               ELSE NoPrev
    /\ index' = load(indexFile)
    /\ known_ids' = get_known_ids(load(indexFile))
    /\ page' = 1
    /\ new_zwift_activities' = <<>>
    /\ found_existing' = FALSE
    /\ i' = 1
    /\ lastPage' = <<>>
    /\ listed' = [id \in Ids |-> 0]
    /\ seen' = {}
    /\ served' = <<>>
    /\ listReqs' = 0
    /\ streamReqs' = <<>>
    /\ lastStreams' = "none"
    /\ IF credentials
       THEN pc' = "refresh" /\ err' = ""
       ELSE pc' = "failed" /\ err' = "config"
    /\ env' = credentials
    /\ events' = <<>>
    /\ UNCHANGED <<disk, harness>>

\* main, line 150: the credential exchange returns
RefreshToken(ok) ==
    /\ pc = "refresh"
    /\ IF ok
       THEN pc' = "paginate" /\ err' = ""
       ELSE pc' = "failed" /\ err' = "auth"
    /\ events' = Append(events, "token")
    /\ UNCHANGED <<disk, run, locals, listing, streamReqs, lastStreams, env, harness>>

\* where main goes when the pagination loop is left
AfterLoop(candidates) == IF candidates # <<>> THEN "enrich" ELSE "finalize"

\* main, line 165: a list request fails
FetchPageError ==
    /\ pc = "paginate"
    /\ pc' = "failed"
    /\ err' = "list"
    /\ listReqs' = listReqs + 1
    /\ UNCHANGED <<disk, run, locals, lastPage, listed, seen, frozen, served, replay,
                   prev, streamReqs, lastStreams, env, harness>>
    /\ events' = Append(events, "list")

\* the pagination loop with its page limit off by one
FetchPage_SixPages(activities) ==
    /\ pc = "paginate"
    /\ ~found_existing
    /\ listReqs' = listReqs + 1
    /\ lastPage' = activities
    /\ listed' = [id \in Ids |-> listed[id] + Occurrences(id, activities)]
    /\ seen' = seen \cup {activities[k] : k \in {j \in 1..Len(activities) :
                                                activities[j].sport_type = "VirtualRide"}}
    /\ served' = IF frozen THEN Append(served, activities) ELSE served
    /\ IF activities = <<>>
       THEN /\ pc' = AfterLoop(new_zwift_activities)
            /\ UNCHANGED <<page, new_zwift_activities, found_existing>>
       ELSE LET scan == ScanPage(activities, known_ids, new_zwift_activities)
            IN  /\ new_zwift_activities' = scan.new
                /\ found_existing' = scan.found
                /\ page' = page + 1
                /\ pc' = IF page + 1 > MaxPages + 1 \/ scan.found
                         THEN AfterLoop(scan.new)
                         ELSE "paginate"
    /\ UNCHANGED <<disk, err, run, index, known_ids, i, streamReqs, lastStreams,
                   frozen, replay, prev, env, harness>>
    /\ events' = Append(events, "list")

\* the pagination loop that goes on to the next page after an empty one
FetchPage_EmptyContinues(activities) ==
    /\ pc = "paginate"
    /\ ~found_existing
    /\ listReqs' = listReqs + 1
    /\ lastPage' = activities
    /\ listed' = [id \in Ids |-> listed[id] + Occurrences(id, activities)]
    /\ seen' = seen \cup {activities[k] : k \in {j \in 1..Len(activities) :
                                                activities[j].sport_type = "VirtualRide"}}
    /\ served' = IF frozen THEN Append(served, activities) ELSE served
    /\ IF activities = <<>>
       THEN /\ page' = page + 1
            /\ pc' = IF page + 1 > MaxPages
                     THEN AfterLoop(new_zwift_activities)
                     ELSE "paginate"
            /\ UNCHANGED <<new_zwift_activities, found_existing>>
       ELSE LET scan == ScanPage(activities, known_ids, new_zwift_activities)
            IN  /\ new_zwift_activities' = scan.new
                /\ found_existing' = scan.found
                /\ page' = page + 1
                /\ pc' = IF page + 1 > MaxPages \/ scan.found
                         THEN AfterLoop(scan.new)
                         ELSE "paginate"
    /\ UNCHANGED <<disk, err, run, index, known_ids, i, streamReqs, lastStreams,
                   frozen, replay, prev, env, harness>>
    /\ events' = Append(events, "list")

\* main, lines 162-205: one turn of the pagination loop on the page returned
FetchPage(activities) ==
    /\ pc = "paginate"
    /\ ~found_existing
    /\ listReqs' = listReqs + 1
    /\ lastPage' = activities
    /\ listed' = [id \in Ids |-> listed[id] + Occurrences(id, activities)]
    /\ seen' = seen \cup {activities[k] : k \in {j \in 1..Len(activities) :
                                                activities[j].sport_type = "VirtualRide"}}
    /\ served' = IF frozen THEN Append(served, activities) ELSE served
    /\ IF activities = <<>>
       THEN /\ pc' = AfterLoop(new_zwift_activities)
            /\ UNCHANGED <<page, new_zwift_activities, found_existing>>
       ELSE LET scan == ScanPage(activities, known_ids, new_zwift_activities)
            IN  /\ new_zwift_activities' = scan.new
                /\ found_existing' = scan.found
                /\ page' = page + 1
                /\ pc' = IF page + 1 > MaxPages \/ scan.found
                         THEN AfterLoop(scan.new)
                         ELSE "paginate"
    /\ UNCHANGED <<disk, err, run, index, known_ids, i, streamReqs, lastStreams,
                   frozen, replay, prev, env, harness>>
    /\ events' = Append(events, "list")

\* the pause taken after every fetched activity, the last one included
AfterFetch_Always(k, n) == <<"sleep">>

\* main, lines 251-254: the pause after an activity that is not the last one
AfterFetch(k, n) == IF k < n THEN <<"sleep">> ELSE <<>>

\* the enrichment loop that does not move on to the next candidate
NextCandidate_Stuck == pc' = "enrich" /\ i' = i

\* the end of one turn of the enrichment loop
NextCandidate ==
    IF i = Len(new_zwift_activities)
    THEN pc' = "finalize" /\ i' = i
    ELSE pc' = "enrich" /\ i' = i + 1

\* the skip of an existing file that forgets to register the activity
EnrichExisting_NoRegister ==
    /\ pc = "enrich"
    /\ activity_file_exists(files, new_zwift_activities[i].id)
    /\ lastStreams' = "none"
    /\ NextCandidate
    /\ UNCHANGED <<disk, err, run, index, known_ids, page, new_zwift_activities,
                   found_existing, listing, streamReqs, env, harness>>
    /\ events' = Append(events, "skip")

\* main, lines 216-221: the detail file exists, register without fetching
EnrichExisting ==
    /\ pc = "enrich"
    /\ LET activity == new_zwift_activities[i]
       IN  /\ activity_file_exists(files, activity.id)
           /\ index' = add_activity(index, activity)
    /\ lastStreams' = "none"
    /\ NextCandidate
    /\ UNCHANGED <<disk, err, run, known_ids, page, new_zwift_activities,
                   found_existing, listing, streamReqs, env, harness>>
    /\ events' = Append(events, "skip")

\* the enrichment that propagates a streams failure instead of recovering
EnrichFetch_Propagate(fetched) ==
    /\ pc = "enrich"
    /\ LET activity == new_zwift_activities[i]
           aws == [activity |-> activity, streams |-> "present"]
       IN  /\ ~activity_file_exists(files, activity.id)
           /\ streamReqs' = Append(streamReqs, activity.id)
           /\ IF fetched
              THEN /\ files' = [files EXCEPT ![activity.id] = ActivityJson(aws)]
                   /\ index' = add_activity(index, activity)
                   /\ NextCandidate
                   /\ err' = err
              ELSE /\ pc' = "failed"
                   /\ err' = "api"
                   /\ UNCHANGED <<files, index, i>>
    /\ lastStreams' = IF fetched THEN "ok" ELSE "err"
    /\ events' = Append(events, "streams")
                  \o (IF fetched THEN AfterFetch(i, Len(new_zwift_activities)) ELSE <<>>)
    /\ UNCHANGED <<indexFile, run, known_ids, page, new_zwift_activities,
                   found_existing, listing, env, harness>>

\* the enrichment that saves the index after every activity
EnrichFetch_SavesIndex(fetched) ==
    /\ pc = "enrich"
    /\ LET activity == new_zwift_activities[i]
           aws == [activity |-> activity,
                   streams |-> IF fetched THEN "present" ELSE "absent"]
       IN  /\ ~activity_file_exists(files, activity.id)
           /\ streamReqs' = Append(streamReqs, activity.id)
           /\ files' = [files EXCEPT ![activity.id] = ActivityJson(aws)]
           /\ index' = add_activity(index, activity)
           /\ indexFile' = IndexJson(index')
    /\ lastStreams' = IF fetched THEN "ok" ELSE "err"
    /\ NextCandidate
    /\ events' = Append(events, "streams") \o AfterFetch(i, Len(new_zwift_activities))
    /\ UNCHANGED <<err, run, known_ids, page, new_zwift_activities,
                   found_existing, listing, env, harness>>

\* main, lines 223-249: the streams request returned (fetched: with success)
\* and save_activity_file wrote the detail file
EnrichFetch(fetched) ==
    /\ pc = "enrich"
    /\ LET activity == new_zwift_activities[i]
           aws == [activity |-> activity,
                   streams |-> IF fetched THEN "present" ELSE "absent"]
       IN  /\ ~activity_file_exists(files, activity.id)
           /\ streamReqs' = Append(streamReqs, activity.id)
           /\ files' = [files EXCEPT ![activity.id] = ActivityJson(aws)]
           /\ index' = add_activity(index, activity)
    /\ lastStreams' = IF fetched THEN "ok" ELSE "err"
    /\ NextCandidate
    /\ events' = Append(events, "streams") \o AfterFetch(i, Len(new_zwift_activities))
    /\ UNCHANGED <<indexFile, err, run, known_ids, page, new_zwift_activities,
                   found_existing, listing, env, harness>>

\* the enrichment that ignores the error of save_activity_file
EnrichWriteError_Ignored(fetched, left) ==
    /\ pc = "enrich"
    /\ LET activity == new_zwift_activities[i]
       IN  /\ ~activity_file_exists(files, activity.id)
           /\ streamReqs' = Append(streamReqs, activity.id)
           /\ files' = [files EXCEPT ![activity.id] = left]
           /\ index' = add_activity(index, activity)
    /\ lastStreams' = IF fetched THEN "ok" ELSE "err"
    /\ NextCandidate
    /\ events' = Append(events, "streams") \o AfterFetch(i, Len(new_zwift_activities))
    /\ UNCHANGED <<indexFile, err, run, known_ids, page, new_zwift_activities,
                   found_existing, listing, env, harness>>

\* main, lines 234 and 246: save_activity_file fails, leaving no file or a
\* truncated one, and main returns the error
EnrichWriteError(fetched, left) ==
    /\ pc = "enrich"
    /\ LET activity == new_zwift_activities[i]
       IN  /\ ~activity_file_exists(files, activity.id)
           /\ streamReqs' = Append(streamReqs, activity.id)
           /\ files' = [files EXCEPT ![activity.id] = left]
    /\ lastStreams' = IF fetched THEN "ok" ELSE "err"
    /\ pc' = "failed"
    /\ err' = "fs"
    /\ events' = Append(events, "streams")
    /\ UNCHANGED <<indexFile, run, locals, listing, env, harness>>

\* main, lines 258-267: stamp the index and save it
Finalize ==
    /\ pc = "finalize"
    /\ index' = [index EXCEPT !.last_updated = <<run>>]
    /\ indexFile' = IndexJson(index')
    /\ pc' = "done"
    /\ lastStreams' = "none"
    /\ UNCHANGED <<files, err, run, known_ids, page, new_zwift_activities,
                   found_existing, i, listing, streamReqs, env, harness>>
    /\ events' = Append(events, "save")

\* main, line 260: index.save fails, leaving the old file or a truncated one
FinalizeError(truncated) ==
    /\ pc = "finalize"
    /\ index' = [index EXCEPT !.last_updated = <<run>>]
    /\ indexFile' = IF truncated THEN [kind |-> "garbage"] ELSE indexFile
    /\ pc' = "failed"
    /\ err' = "fs"
    /\ lastStreams' = "none"
    /\ UNCHANGED <<files, run, known_ids, page, new_zwift_activities,
                   found_existing, i, listing, streamReqs, env, harness>>
    /\ events' = Append(events, "save")

Next ==
    \/ \E credentials \in BOOLEAN, freeze \in BOOLEAN : StartRun(credentials, freeze)
    \/ \E ok \in BOOLEAN : RefreshToken(ok)
    \/ FetchPageError
    \/ \E activities \in NextPages : FetchPage(activities)
    \/ EnrichExisting
    \/ \E fetched \in BOOLEAN : EnrichFetch(fetched)
    \/ \E fetched \in BOOLEAN, left \in {NoFile, PartialFile} : EnrichWriteError(fetched, left)
    \/ Finalize
    \/ \E truncated \in BOOLEAN : FinalizeError(truncated)

Spec == Init /\ [][Next]_vars

\* ------------------------------------------------- add_activity on its own
\* activities with any start_date, and indexes with any contents
Dates == {DateOf(id) : id \in Ids}
AnyActivities == {[Activity(id) EXCEPT !.start_date = d] : id \in Ids, d \in Dates}
AnySummaries == {ActivitySummary(a) : a \in AnyActivities}
AnyIndexes == UNION {[1..n -> AnySummaries] : n \in 0..MaxIndexLen}

InitAdd ==
    /\ index \in {[last_updated |-> <<>>, activities |-> s] : s \in AnyIndexes}
    /\ env = TRUE
    /\ events = <<>>
    /\ before = <<>>
    /\ response = NoResponse
    /\ result = NoResult
    /\ pc = "arbitrary"
    /\ indexFile = [kind |-> "missing"]
    /\ files = [id \in Ids |-> NoFile]
    /\ err = ""
    /\ run = 0
    /\ known_ids = {}
    /\ page = 1
    /\ new_zwift_activities = <<>>
    /\ found_existing = FALSE
    /\ i = 1
    /\ lastPage = <<>>
    /\ listed = [id \in Ids |-> 0]
    /\ seen = {}
    /\ listReqs = 0
    /\ streamReqs = <<>>
    /\ lastStreams = "none"
    /\ frozen = FALSE
    /\ served = <<>>
    /\ replay = FALSE
    /\ prev = NoPrev

\* one call of ActivityIndex::add_activity
AddActivity(activity) ==
    /\ pc \in {"arbitrary", "added"}
    /\ Len(index.activities) <= MaxIndexLen
    /\ before' = index.activities
    /\ index' = add_activity(index, activity)
    /\ pc' = "added"
    /\ UNCHANGED <<disk, err, run, known_ids, page, new_zwift_activities,
                   found_existing, i, listing, streamReqs, lastStreams, env,
                   events, response, result>>

NextAdd == \E activity \in AnyActivities : AddActivity(activity)

SpecAdd == InitAdd /\ [][NextAdd]_vars

\* ------------------------------------------ fetch_activity_streams on its own
\* the six keys of the streams request; three are Vec<i32>, three Vec<f64>
StreamKeys == {"time", "watts", "heartrate", "cadence", "velocity_smooth", "altitude"}
IntKeys == {"time", "heartrate", "cadence"}

\* what a JSON body holds under a key: nothing, a value without "data", or
\* "data" holding an array of integers, an array with a fraction in it, or
\* anything else (a string, null, an array with a null in it)
Entries == {"absent", "nodata", "ints", "floats", "other"}
NoEntries == [key \in StreamKeys |-> "absent"]

\* the responses: no response at all, or a status with a body that is not
\* JSON, a JSON object, or another JSON value
Responses ==
    {[status |-> st, text |-> "object", map |-> m] :
        st \in {"success", "failure"}, m \in [StreamKeys -> Entries]}
    \cup {[status |-> st, text |-> t, map |-> NoEntries] :
        st \in {"success", "failure"}, t \in {"invalid", "other"}}
    \cup {[status |-> "unreachable", text |-> "invalid", map |-> NoEntries]}

None == [some |-> FALSE, data |-> "none"]
Some(data) == [some |-> TRUE, data |-> data]

\* serde_json::from_value into Vec<i32> or Vec<f64>, .ok()
from_value(key, data) ==
    IF key \in IntKeys
    THEN IF data = "ints" THEN Some(data) ELSE None
    ELSE IF data \in {"ints", "floats"} THEN Some(data) ELSE None

\* streams_map.get(key).and_then(get "data").and_then(from_value .ok())
decode(key, resp) ==
    IF resp.text # "object" \/ resp.map[key] \in {"absent", "nodata"}
    THEN None
    ELSE from_value(key, resp.map[key])

Err(error) == [kind |-> "err", error |-> error, streams |-> [key \in StreamKeys |-> None]]
Ok(streams) == [kind |-> "ok", error |-> "", streams |-> streams]

\* the fetch that decodes the body into the typed record in one piece
fetch_activity_streams_Strict(resp) ==
    IF resp.status = "unreachable" THEN Err("transport")
    ELSE IF resp.status # "success" THEN Err("status")
    ELSE IF resp.text = "invalid" THEN Err("json")
    ELSE IF \E key \in StreamKeys :
                /\ resp.map[key] \notin {"absent", "nodata"}
                /\ ~from_value(key, resp.map[key]).some
         THEN Err("json")
    ELSE Ok([key \in StreamKeys |-> decode(key, resp)])

\* fetch_activity_streams, lines 316-366
fetch_activity_streams(resp) ==
    IF resp.status = "unreachable" THEN Err("transport")
    ELSE IF resp.status # "success" THEN Err("status")
    ELSE IF resp.text = "invalid" THEN Err("json")
    ELSE Ok([key \in StreamKeys |-> decode(key, resp)])

InitStreams ==
    /\ response \in Responses
    /\ result = NoResult
    /\ pc = "request"
    /\ index = EmptyIndex
    /\ before = <<>>
    /\ indexFile = [kind |-> "missing"]
    /\ files = [id \in Ids |-> NoFile]
    /\ err = ""
    /\ run = 0
    /\ known_ids = {}
    /\ page = 1
    /\ new_zwift_activities = <<>>
    /\ found_existing = FALSE
    /\ i = 1
    /\ lastPage = <<>>
    /\ listed = [id \in Ids |-> 0]
    /\ seen = {}
    /\ listReqs = 0
    /\ streamReqs = <<>>
    /\ lastStreams = "none"
    /\ frozen = FALSE
    /\ served = <<>>
    /\ replay = FALSE
    /\ prev = NoPrev
    /\ env = TRUE
    /\ events = <<>>

\* one call of fetch_activity_streams
FetchStreams ==
    /\ pc = "request"
    /\ result' = fetch_activity_streams(response)
    /\ pc' = "returned"
    /\ UNCHANGED <<disk, err, run, locals, listing, streamReqs, lastStreams, env,
                   events, before, response>>

NextStreams == FetchStreams

SpecStreams == InitStreams /\ [][NextStreams]_vars

\* ------------------------------------------------------------ vocabulary
IdsOf(s) == {s[k].id : k \in 1..Len(s)}
Range(s) == {s[k] : k \in 1..Len(s)}
IndexFileIds == IF indexFile.kind = "json" THEN IdsOf(indexFile.activities) ELSE {}
FileIds == {id \in Ids : files[id].kind # "none"}
NoDuplicateIds(s) == \A k, l \in 1..Len(s) : s[k].id = s[l].id => k = l
IsSortedDesc(s) ==
    \A k \in 1..(Len(s) - 1) : ~StrLess(s[k].start_date, s[k + 1].start_date)

\* position of the first activity of a page whose id is known, 0 when none is
FirstKnown(acts, known) ==
    IF \E k \in 1..Len(acts) : acts[k].id \in known
    THEN CHOOSE k \in 1..Len(acts) :
            /\ acts[k].id \in known
            /\ \A j \in 1..(k - 1) : acts[j].id \notin known
    ELSE 0

\* the activities of a page the scan reaches: up to the first known one
Scanned(acts, known) ==
    IF FirstKnown(acts, known) = 0 THEN acts ELSE SubSeq(acts, 1, FirstKnown(acts, known))

\* a step of the pagination loop that received a page
PageStep == pc = "paginate" /\ listReqs' = listReqs + 1 /\ pc' # "failed"

\* ------------------------------------------------------------------ claims
IsCandidate(a) == a.sport_type = "VirtualRide" /\ a.id \notin known_ids
IsVirtualRide(a) == a.sport_type = "VirtualRide"

\* C1: of the activities of a fetched page that the scan reaches, exactly those
\* whose sport type is "VirtualRide" and whose id is not in the known-id set
\* (the ids of the persisted index) are appended, in order, to the candidates.
C1_CandidateIff ==
    [][PageStep =>
         /\ known_ids = IndexFileIds
         /\ new_zwift_activities' =
                new_zwift_activities \o SelectSeq(Scanned(lastPage', known_ids), IsCandidate)
      ]_vars

C1_Witness ==
    /\ pc = "paginate"
    /\ known_ids # {}
    /\ Len(lastPage) = 2
    /\ lastPage[1].sport_type = "Ride"
    /\ IsCandidate(lastPage[2])
    /\ new_zwift_activities = <<lastPage[2]>>

\* C2: a page holding a known id ends the pagination: only the VirtualRides
\* before its first known id become candidates, once a known id was met no
\* further page is requested and no candidate is added, and streams are only
\* ever requested for the candidate the enrichment loop stands at.
C2_HaltsOnKnown ==
    [][/\ (PageStep /\ FirstKnown(lastPage', known_ids) # 0 =>
             /\ found_existing'
             /\ pc' # "paginate"
             /\ new_zwift_activities' = new_zwift_activities \o
                    SelectSeq(SubSeq(lastPage', 1, FirstKnown(lastPage', known_ids) - 1),
                              IsVirtualRide))
       /\ (found_existing /\ run' = run =>
             /\ listReqs' = listReqs
             /\ new_zwift_activities' = new_zwift_activities)
       /\ (run' = run /\ streamReqs' # streamReqs =>
             /\ pc = "enrich"
             /\ streamReqs' = Append(streamReqs, new_zwift_activities[i].id))
      ]_vars

C2_Witness ==
    /\ pc = "done"
    /\ found_existing
    /\ Len(lastPage) = 2
    /\ lastPage[1].id \in known_ids
    /\ IsCandidate(lastPage[2])
    /\ listReqs = 2
    /\ new_zwift_activities = <<>>
    /\ files[lastPage[2].id].kind = "none"

\* C3: in a run that sees the listing the previous, completed run saw, no
\* candidate is found, no streams are requested, no detail file changes, and
\* the persisted index keeps its activities: until the run saves it the file is
\* untouched, and the saved index differs at most in last_updated.
C3_Idempotent ==
    replay /\ prev.outcome = "done" =>
        /\ files = prev.files
        /\ new_zwift_activities = <<>>
        /\ streamReqs = <<>>
        /\ pc \notin {"done", "failed"} => indexFile = prev.indexFile
        /\ pc = "done" =>
             /\ indexFile.kind = "json"
             /\ indexFile.activities = prev.indexFile.activities

C3_Witness ==
    /\ replay
    /\ prev.outcome = "done"
    /\ pc = "done"
    /\ Len(indexFile.activities) >= 2
    /\ indexFile.last_updated # prev.indexFile.last_updated

\* C4: neither the index in memory nor the persisted index ever holds two
\* summaries with the same id.
C4_NoDuplicateIds ==
    /\ NoDuplicateIds(index.activities)
    /\ indexFile.kind = "json" => NoDuplicateIds(indexFile.activities)

\* C5 as stated: between runs the ids of the persisted index are exactly the
\* ids that have a detail file.
C5_IndexEqualsFiles == pc \in {"idle", "done", "failed"} => IndexFileIds = FileIds

\* C5: every id of the persisted index, and every id of the index in memory,
\* has a detail file.
C5_IndexWithinFiles ==
    /\ IndexFileIds \subseteq FileIds
    /\ IdsOf(index.activities) \subseteq FileIds

C5_Witness ==
    /\ pc = "failed"
    /\ run = MaxRuns
    /\ IndexFileIds # {}
    /\ FileIds \ IndexFileIds # {}

\* C6: a step whose streams request failed either ends with the error of the
\* file write, or leaves a detail file of the candidate with streams absent,
\* the candidate in the index, and the loop at the next candidate (or past the
\* last one).
C6_StreamsFailureRecovered ==
    [][run' = run /\ pc = "enrich" /\ lastStreams' = "err" =>
         \/ pc' = "failed" /\ err' = "fs"
         \/ /\ files[new_zwift_activities[i].id].kind = "none"
            /\ files'[new_zwift_activities[i].id] =
                   [kind |-> "json", activity |-> new_zwift_activities[i],
                    streams |-> "absent"]
            /\ new_zwift_activities[i].id \in IdsOf(index'.activities)
            /\ err' = err
            /\ IF i < Len(new_zwift_activities)
               THEN pc' = "enrich" /\ i' = i + 1
               ELSE pc' = "finalize"
      ]_vars

C6_Witness ==
    /\ pc = "done"
    /\ lastStreams = "none"
    /\ Len(new_zwift_activities) = 2
    /\ streamReqs = <<new_zwift_activities[1].id, new_zwift_activities[2].id>>
    /\ files[new_zwift_activities[1].id].streams = "absent"
    /\ files[new_zwift_activities[2].id].streams = "present"
    /\ IdsOf(new_zwift_activities) \subseteq IndexFileIds

\* C7: after add_activity, whatever the index held, its summaries are sorted
\* non-increasing by start_date as strings.
C7_SortedAfterAdd == pc = "added" => IsSortedDesc(index.activities)

C7_Witness ==
    /\ pc = "added"
    /\ Len(before) = MaxIndexLen
    /\ ~IsSortedDesc(before)
    /\ Len(index.activities) = MaxIndexLen + 1

\* C8: a run makes at most 5 list requests; when the 5th page is non-empty and
\* no known id was met, the loop has stopped with every VirtualRide of the
\* pages among the candidates, and once the enrichment loop is through each of
\* them has a detail file and an index entry, persisted when the run is done.
PageLimitReached ==
    listReqs = MaxPages /\ lastPage # <<>> /\ ~found_existing /\ err # "list"

C8_PageLimit ==
    /\ listReqs <= MaxPages
    /\ PageLimitReached =>
         /\ pc # "paginate"
         /\ seen = Range(new_zwift_activities)
         /\ pc \in {"finalize", "done"} =>
              \A a \in seen : files[a.id].kind # "none" /\ a.id \in IdsOf(index.activities)
         /\ pc = "done" => \A a \in seen : a.id \in IndexFileIds

C8_Witness ==
    /\ PageLimitReached
    /\ pc = "done"
    /\ Cardinality(seen) = 2
    /\ known_ids = {}

\* C9: a step of the enrichment loop on a candidate whose detail file exists
\* requests no streams and adds one summary of the candidate to the index.
C9_ExistingFileSkipsFetch ==
    [][run' = run /\ pc = "enrich" /\ files[new_zwift_activities[i].id].kind # "none" =>
         /\ streamReqs' = streamReqs
         /\ files' = files
         /\ Len(index'.activities) = Len(index.activities) + 1
         /\ new_zwift_activities[i].id \in IdsOf(index'.activities)
      ]_vars

C9_Witness ==
    /\ pc = "done"
    /\ \E k \in 1..Len(new_zwift_activities) :
         /\ new_zwift_activities[k].id \notin Range(streamReqs)
         /\ new_zwift_activities[k].id \in IndexFileIds

\* C10: a detail file that exists is left as it is by every step.
C10_FilesWrittenOnce ==
    [][\A id \in Ids : files[id].kind # "none" => files'[id] = files[id]]_vars

C10_Witness ==
    /\ pc = "done"
    /\ run = MaxRuns
    /\ \E id \in Ids : files[id].kind = "partial" /\ id \in IndexFileIds

\* C11: the step that completes a run leaves a persisted index holding, for
\* every id, as many entries more than the index loaded at the start as the
\* candidates name that id; every candidate has a detail file; an activity
\* listed with another sport_type has no detail file and no index entry.
C11_OneEntryPerCandidate ==
    [][pc = "finalize" /\ pc' = "done" =>
        /\ indexFile'.kind = "json"
        /\ \A id \in Ids :
              Occurrences(id, indexFile'.activities)
                = Occurrences(id, load(indexFile).activities)
                  + Occurrences(id, new_zwift_activities)
        /\ \A k \in 1..Len(new_zwift_activities) :
              files'[new_zwift_activities[k].id].kind # "none"
        /\ \A id \in Ids :
              listed[id] > 0 /\ Activity(id).sport_type # "VirtualRide"
                => files'[id].kind = "none" /\ id \notin IdsOf(indexFile'.activities)]_vars

\* a completed first run whose pages named two VirtualRides and another ride
C11_Witness ==
    /\ pc = "done"
    /\ known_ids = {}
    /\ Len(new_zwift_activities) = 2
    /\ \E id \in Ids : listed[id] > 0 /\ Activity(id).sport_type # "VirtualRide"
    /\ Len(indexFile.activities) = 2
    /\ \A k \in 1..2 : files[new_zwift_activities[k].id].kind = "json"

\* the candidates the enrichment loop has dealt with in this run
Processed == Cardinality({k \in 1..Len(events) : events[k] \in {"streams", "skip"}})

\* C12 as stated: the index file changes only in the step that completes a
\* run, which writes the stamped index after every candidate was processed;
\* nothing is stored after it; a step that aborts the run leaves the index
\* file as it was and keeps every detail file.
C12_IndexUntouchedOnAbort ==
    [][/\ indexFile' # indexFile => pc = "finalize" /\ pc' = "done"
       /\ pc = "finalize" /\ pc' = "done" =>
             /\ indexFile' = IndexJson(index') /\ indexFile' # indexFile
             /\ Processed = Len(new_zwift_activities)
       /\ pc \in {"done", "failed"} => disk' = disk
       /\ pc' = "failed" =>
             /\ indexFile' = indexFile
             /\ \A id \in Ids : files[id].kind # "none" => files'[id] = files[id]]_vars

\* C12, amended: the index file changes only in the final save, which comes
\* after every candidate was processed and after which nothing is stored; a
\* completed run writes the stamped index there, once; a run that aborts
\* before the final save leaves the index file as it was (one that aborts in
\* the final save may leave it truncated); a step that aborts the run keeps
\* every detail file.
C12_IndexWrittenLast ==
    [][/\ indexFile' # indexFile => pc = "finalize"
       /\ pc = "finalize" =>
             /\ Processed = Len(new_zwift_activities)
             /\ \A k \in 1..Len(events) : events[k] # "save"
       /\ pc = "finalize" /\ pc' = "done" =>
             indexFile' = IndexJson(index') /\ indexFile' # indexFile
       /\ pc \in {"done", "failed"} => disk' = disk
       /\ pc' = "failed" /\ pc # "finalize" => indexFile' = indexFile
       /\ pc' = "failed" =>
             \A id \in Ids : files[id].kind # "none" => files'[id] = files[id]]_vars

\* a second run that aborted after writing a detail file: the index is the
\* one the first run saved, the file is on disk
C12_Witness ==
    /\ run = 2
    /\ pc = "failed"
    /\ err = "fs"
    /\ indexFile.kind = "json"
    /\ indexFile.last_updated = <<1>>
    /\ streamReqs # <<>>
    /\ files[streamReqs[1]].kind = "json"
    /\ streamReqs[1] \notin IndexFileIds

\* how the pagination loop of this run came to its end
LoopCompleted == found_existing \/ (listReqs > 0 /\ lastPage = <<>>) \/ PageLimitReached

\* C13 as stated: a step ends the run with a failure exactly when the
\* credential exchange, a list request or a filesystem write fails; a failed
\* list request comes before any enrichment; the run ends with success only
\* from a pagination loop that met a known id, an empty page or the page limit.
C13_ThreeCauses ==
    [][/\ pc' = "failed" /\ (pc # "failed" \/ run' # run) =>
             \/ pc = "refresh" /\ err' = "auth"
             \/ /\ pc = "paginate" /\ err' = "list"
                /\ Processed' = 0 /\ files' = files /\ index' = index
             \/ pc \in {"enrich", "finalize"} /\ err' = "fs"
       /\ (err' # "") = (pc' = "failed")
       /\ pc' = "done" /\ pc # "done" => pc = "finalize" /\ LoopCompleted]_vars

\* C13, amended: a fourth cause, a missing environment credential, also ends
\* the run with a failure; the rest as stated.
C13_FourCauses ==
    [][/\ pc' = "failed" /\ (pc # "failed" \/ run' # run) =>
             \/ run' # run /\ ~env' /\ err' = "config"
             \/ pc = "refresh" /\ err' = "auth"
             \/ /\ pc = "paginate" /\ err' = "list"
                /\ Processed' = 0 /\ files' = files /\ index' = index
             \/ pc \in {"enrich", "finalize"} /\ err' = "fs"
       /\ (err' # "") = (pc' = "failed")
       /\ pc' = "done" /\ pc # "done" => pc = "finalize" /\ LoopCompleted]_vars

\* a list request failed on the second page, after the first page gave a
\* candidate: the run failed with nothing enriched
C13_Witness ==
    /\ pc = "failed"
    /\ err = "list"
    /\ listReqs = 2
    /\ new_zwift_activities # <<>>
    /\ streamReqs = <<>>
    /\ \A id \in Ids : files[id].kind = "none"

\* C14: a run started with an environment credential missing has failed
\* without a token exchange, a list request or a streams request, and the
\* only step of such a run leaves the index file and the detail files alone.
C14_NoCallWithoutCredentials ==
    /\ [](~env => pc = "failed" /\ events = <<>> /\ listReqs = 0 /\ streamReqs = <<>>)
    /\ [][~env' => run' # run /\ disk' = disk]_vars

\* a second run without its credentials, on the storage the first run left
C14_Witness ==
    /\ ~env
    /\ run = 2
    /\ pc = "failed"
    /\ err = "config"
    /\ indexFile.kind = "json"
    /\ \E id \in Ids : files[id].kind = "json"

\* C15: between any two streams requests of a run there is a pause, and once
\* the last candidate has been processed every pause of the run is followed
\* by the processing of a candidate, so none comes after the last one.
C15_DelayBetweenRequests ==
    /\ \A a, b \in 1..Len(events) :
          a < b /\ events[a] = "streams" /\ events[b] = "streams"
            => \E c \in (a + 1)..(b - 1) : events[c] = "sleep"
    /\ Processed = Len(new_zwift_activities) =>
          \A k \in 1..Len(events) :
              events[k] = "sleep"
                => \E l \in (k + 1)..Len(events) : events[l] \in {"streams", "skip"}

\* a completed run that fetched the streams of two candidates
C15_Witness ==
    /\ pc = "done"
    /\ Len(new_zwift_activities) = 2
    /\ Len(streamReqs) = 2
    /\ \E a \in 1..Len(events) :
          /\ a + 3 = Len(events)
          /\ events[a] = "streams" /\ events[a + 1] = "sleep"
          /\ events[a + 2] = "streams" /\ events[a + 3] = "save"

\* a key of the body is present and holds data of its own type
WellFormed(key) ==
    /\ response.text = "object"
    /\ \/ response.map[key] = "ints"
       \/ response.map[key] = "floats" /\ key \notin IntKeys

\* what the call returned for each key is that key's data when the key is
\* present and well-formed and none otherwise, whatever the other keys hold
EachKeyOnItsOwn ==
    \A key \in StreamKeys :
        result.streams[key] = IF WellFormed(key) THEN Some(response.map[key]) ELSE None

\* C16 as stated: the call fails exactly on a non-success status, and on a
\* success status it returns a record with each key decoded on its own.
C16_FailsOnlyOnStatus ==
    pc = "returned" =>
        /\ (result.kind = "err") = (response.status = "failure")
        /\ response.status = "success" => result.kind = "ok" /\ EachKeyOnItsOwn

\* C16, amended: the call fails exactly when no response arrives, the status
\* is not a success, or the body of a success response is not JSON; on a
\* success status with a JSON body it returns a record with each key decoded
\* on its own.
C16_FailsOnStatusOrBody ==
    pc = "returned" =>
        /\ (result.kind = "err") = \/ response.status \in {"unreachable", "failure"}
                                   \/ response.text = "invalid"
        /\ response.status = "success" /\ response.text # "invalid" =>
              result.kind = "ok" /\ EachKeyOnItsOwn

\* a success response with a key absent, a key without data, a key with
\* data of the wrong type and two keys with good data
C16_Witness ==
    /\ pc = "returned"
    /\ response.status = "success"
    /\ response.map["time"] = "ints"
    /\ response.map["watts"] = "floats"
    /\ response.map["heartrate"] = "floats"
    /\ response.map["cadence"] = "absent"
    /\ response.map["altitude"] = "other"
    /\ response.map["velocity_smooth"] = "nodata"
    /\ result.kind = "ok"
    /\ result.streams["time"] = Some("ints")
    /\ result.streams["watts"] = Some("floats")
    /\ result.streams["heartrate"] = None

\* C17: the step that starts a run loads the empty index (no last_updated, no
\* activities, no known id) when the index file is missing or does not
\* parse, and the persisted index as it is otherwise; either way the run goes
\* on to the credential exchange when its credentials are there.
C17_LoadNeverFails ==
    [][run' # run =>
        /\ indexFile.kind # "json" =>
              index'.last_updated = <<>> /\ index'.activities = <<>> /\ known_ids' = {}
        /\ indexFile.kind = "json" =>
              /\ index'.last_updated = indexFile.last_updated
              /\ index'.activities = indexFile.activities
              /\ known_ids' = IdsOf(indexFile.activities)
        /\ env' => pc' = "refresh"]_vars

\* a second run started on an index file that does not parse, with detail
\* files on disk: it goes on with the empty index
C17_Witness ==
    /\ run = 2
    /\ pc = "refresh"
    /\ indexFile.kind = "garbage"
    /\ \E id \in Ids : files[id].kind = "json"
    /\ index = EmptyIndex
    /\ known_ids = {}

\* the last list request of this run returned an empty page
EmptyPageMet == listReqs > 0 /\ lastPage = <<>> /\ err # "list"

\* C18: the page step that gets an empty page leaves the loop with the
\* candidates collected so far, on to their enrichment; after it the run
\* makes no list request, and when it is done the index file holds every
\* candidate and every candidate has its detail file.
C18_EmptyPageStops ==
    /\ [][/\ PageStep /\ lastPage' = <<>> =>
                /\ new_zwift_activities' = new_zwift_activities
                /\ pc' = IF new_zwift_activities # <<>> THEN "enrich" ELSE "finalize"
          /\ EmptyPageMet /\ run' = run => listReqs' = listReqs]_vars
    /\ [](EmptyPageMet =>
            /\ pc # "paginate"
            /\ pc = "done" =>
                  /\ indexFile.kind = "json"
                  /\ indexFile.last_updated = <<run>>
                  /\ \A k \in 1..Len(new_zwift_activities) :
                        /\ new_zwift_activities[k].id \in IndexFileIds
                        /\ files[new_zwift_activities[k].id].kind # "none")

\* a completed run whose third page was empty, with a candidate from each of
\* the two pages before it
C18_Witness ==
    /\ EmptyPageMet
    /\ pc = "done"
    /\ listReqs = 3
    /\ Len(new_zwift_activities) = 2
    /\ IdsOf(new_zwift_activities) \subseteq IndexFileIds
    /\ Len(streamReqs) = 2

\* the ids whose detail file the previous run wrote
PrevWritten == {id \in Range(prev.streamReqs) : prev.files[id].kind # "none"}

\* C19: in a run that sees the listing of a previous run that aborted on a
\* filesystem error, no streams request is made for an activity whose detail
\* file that run wrote, and once the run is done the index file holds every
\* one of them.
C19_Resumable ==
    replay /\ prev.outcome = "failed" /\ prev.err = "fs" =>
        \A id \in PrevWritten :
            /\ id \notin Range(streamReqs)
            /\ pc = "done" => id \in IndexFileIds

\* a run that completed after one that wrote a detail file and then aborted
\* on the next: the first is registered without a request, the second fetched
C19_Witness ==
    /\ replay
    /\ prev.outcome = "failed"
    /\ prev.err = "fs"
    /\ Len(prev.streamReqs) = 2
    /\ PrevWritten # {}
    /\ prev.indexFile.kind = "missing"
    /\ pc = "done"
    /\ PrevWritten \subseteq IndexFileIds
    /\ streamReqs # <<>>

\* the most candidates the pagination loop can collect
MaxCandidates == MaxPages * MaxPageLen

\* the steps the run can still take, at most
Rank ==
    CASE pc = "refresh" -> MaxPages + MaxCandidates + 3
      [] pc = "paginate" -> (MaxPages - listReqs) + MaxCandidates + 2
      [] pc = "enrich" -> (Len(new_zwift_activities) - i) + 2
      [] pc = "finalize" -> 1
      [] OTHER -> 0

\* C20: every step of a run lowers the number of steps the run can still
\* take, and a run that has not ended has a step to take (in the pagination
\* loop a page to ask for, in the enrichment loop a candidate to process),
\* so every run ends when its calls return; the credential exchange happens
\* once, as the first call of the run; no list request follows the
\* processing of a candidate; the streams requests are no more than the
\* candidates processed, and each is for a collected candidate.
C20_Terminates ==
    /\ [][run' = run => Rank' < Rank]_vars
    /\ [](/\ Rank >= 0
          /\ pc = "paginate" => ~found_existing /\ page <= MaxPages /\ NextPages # {}
          /\ pc = "enrich" => i \in 1..Len(new_zwift_activities)
          /\ \A k \in 1..Len(events) : (events[k] = "token") = (k = 1)
          /\ \A a, b \in 1..Len(events) :
                a < b /\ events[a] \in {"streams", "skip"} => events[b] # "list"
          /\ Len(streamReqs) <= Processed
          /\ Processed <= Len(new_zwift_activities)
          /\ \A k \in 1..Len(streamReqs) :
                Occurrences(streamReqs[k], new_zwift_activities) > 0)

\* a run that ended at the page limit, after one credential exchange, five
\* list requests and then two streams requests
C20_Witness ==
    /\ pc = "done"
    /\ events[1] = "token"
    /\ listReqs = MaxPages
    /\ \A k \in 2..(MaxPages + 1) : events[k] = "list"
    /\ Len(streamReqs) = 2
    /\ events[Len(events)] = "save"
====
